---------------------------- MODULE Spec2Model ----------------------------
(***************************************************************************)
(* mem-rs: the OS capability wrappers of src/mem/src/windows/wrappers.rs   *)
(* and the operations built on them: Injector::inject (called by           *)
(* src/examples/injector.rs), the process locator find_process_id, and     *)
(* get_module_handle.                                                      *)
(*                                                                         *)
(* Every wrapper is an operator from the raw value the Win32 call returns  *)
(* to the Result the wrapper returns.  The raw value is chosen by the      *)
(* action that issues the call.  A Result is a record                      *)
(*   [ok |-> BOOLEAN, val |-> Int, err |-> STRING].                        *)
(* Handles and pointers are integers (isize / usize); NULL is 0.           *)
(* A DWORD is written as the signed value of its 32 bits, so 0xFFFF_FFFF   *)
(* is -1.                                                                  *)
(***************************************************************************)
EXTENDS Integers, Sequences, FiniteSets, TLC

\* ------------------------------------------------------------------ bounds
\* Number of bytes of the staged payload (the module path).
PayloadSize == 2
\* Longest process snapshot.
MaxEntries == 3

\* ------------------------------------------------------- Result<T, Error>
Ok(v) == [ok |-> TRUE, val |-> v, err |-> "none"]
Err(e) == [ok |-> FALSE, val |-> 0, err |-> e]
Pending == [ok |-> FALSE, val |-> 0, err |-> "pending"]

\* ------------------------------------------------------ Win32 raw values
\* WaitForSingleObject: the object was signaled.
WAIT_OBJECT_0 == 0
\* WaitForSingleObject: the time-out interval elapsed (0x102).
WAIT_TIMEOUT == 258
\* WaitForSingleObject: the call itself failed (0xFFFF_FFFF).
WAIT_FAILED == -1
\* INVALID_HANDLE_VALUE, the failure value of CreateToolhelp32Snapshot.
INVALID_HANDLE_VALUE == -1

\* What OpenProcess can return: NULL on failure, else a handle.
ProcessHandles == {0, 7}
\* What VirtualAllocEx can return: NULL on failure, else the base address.
RemoteAddresses == {0, 4096}
\* What GetProcAddress can return: None (0) or the export's address.
ExportAddresses == {0, 2048}
\* What CreateRemoteThread can return: NULL on failure, else a handle.
ThreadHandles == {0, 9}
\* What WaitForSingleObject can return.
WaitResults == {WAIT_OBJECT_0, WAIT_TIMEOUT, WAIT_FAILED}
\* What GetExitCodeThread reports for a loader thread that loaded the module.
ModuleBases == {8192, 12288}
\* What GetModuleHandleA can return (isize) for a loaded module: its base,
\* which has the sign bit set when it lies in the upper half of the address
\* space.  For a module that is not loaded it returns NULL.
HInstances == {-2, -1, 1, 2}
\* Module names asked for, and those loaded in the calling process.
ModuleNames == {"absent.dll", "kernel32.dll"}
LoadedModules == {"kernel32.dll"}
\* What CreateToolhelp32Snapshot can return.
SnapshotHandles == {INVALID_HANDLE_VALUE, 5}
\* Process names met in snapshots, and names asked for.
EntryNames == {"a.exe", "b.exe", "B.EXE"}
QueryNames == {"a.exe", "b.exe", "z.exe"}

\* ------------------------------------------------------------ the wrappers
\* HANDLE::is_invalid of windows-rs.
is_invalid(h) == h = 0 \/ h = INVALID_HANDLE_VALUE

get_module_handle(hinstance) ==
    IF hinstance < 0 THEN Err("Handle") ELSE Ok(hinstance)

wait_for_single_object(res) ==
    IF res = WAIT_FAILED THEN Err("Timeout") ELSE Ok(res)

\* The validity test is inverted.
create_remote_thread_inverted(handle) ==
    IF is_invalid(handle) THEN Ok(handle) ELSE Err("ProcessError")
create_remote_thread(handle) ==
    IF is_invalid(handle) THEN Err("ProcessError") ELSE Ok(handle)

close_handle(res) ==
    IF res THEN Ok(0) ELSE Err("Handle")

\* The handle is dropped: NULL is returned whatever OpenProcess returned.
open_process_dropped(h) == 0
\* A failed open is reported as INVALID_HANDLE_VALUE instead of NULL.
open_process_invalid(h) == IF h = 0 THEN INVALID_HANDLE_VALUE ELSE h
open_process(h) == h

create_tool_help32_snapshot(res) ==
    IF is_invalid(res) THEN Err("MemoryError") ELSE Ok(res)

process32_first(res) ==
    IF res THEN Ok(0) ELSE Err("MemoryError")

\* The call always fails (the entry's dwSize is never set).
process32_next_fails(res) == Err("MemoryError")
process32_next(res) ==
    IF res THEN Ok(0) ELSE Err("MemoryError")

\* The BOOL the call returns is ignored.
write_process_memory_unchecked(result) == Ok(0)
write_process_memory(result) ==
    IF result THEN Ok(0) ELSE Err("MemoryError")

\* None is not turned into an error.
get_proc_address_unchecked(function_address) == Ok(function_address)
get_proc_address(function_address) ==
    IF function_address = 0 THEN Err("ProcessAddress") ELSE Ok(function_address)

\* The null test is inverted.
virtual_alloc_ex_inverted(res) ==
    IF res = 0 THEN Ok(res) ELSE Err("MemoryError")
virtual_alloc_ex(res) ==
    IF res = 0 THEN Err("MemoryError") ELSE Ok(res)

virtual_free_ex(result) ==
    IF result THEN Ok(0) ELSE Err("MemoryError")

virtual_protect_ex(res) ==
    IF res THEN Ok(0) ELSE Err("Allocation")

\* WriteProcessMemory: the whole area is written or the operation fails.
WriteProcessMemory(written, size) == written = size


\* ------------------------------------------------------------------- state
VARIABLES
    op,           \* the operation the program runs
    pc,           \* position inside that operation
    method,       \* Config.method of the Injector
    calls,        \* OS capability calls issued so far, in order
    failedAt,     \* the first OS call whose raw outcome was a failure
    rawOpen,      \* what OpenProcess returned
    handle,       \* the ProcessHandle inject holds (0: none)
    rawAlloc,     \* what VirtualAllocEx returned
    allocState,   \* the staged RemoteAllocation: "none", "live", "released"
    written,      \* bytes WriteProcessMemory wrote
    writeRes,     \* Result of write_process_memory
    thread,       \* the remote thread: "none", "running", "finished"
    waitRaw,      \* what WaitForSingleObject returned
    waitRes,      \* Result of wait_for_single_object
    result,       \* InjectionResult kind ("none" until decided)
    moduleBase,   \* success payload
    cleanupFailed,\* secondary warning channel
    entries,      \* the process snapshot: sequence of names
    query,        \* the name find_process_id looks for
    rawSnap,      \* what CreateToolhelp32Snapshot returned
    snapState,    \* the snapshot handle: "none", "open", "closed"
    idx,          \* entry the iteration stands on
    found,        \* find_process_id's result (0: none)
    iterErr,      \* Process32First/Next failed before the end of the snapshot
    module_name,  \* the name get_module_handle is asked for
    hinstance,    \* what GetModuleHandleA returned
    gmhRes        \* Result of get_module_handle

injVars == <<method, calls, failedAt, rawOpen, handle, rawAlloc, allocState,
             written, writeRes, thread, waitRaw, waitRes, result, moduleBase,
             cleanupFailed>>
locVars == <<entries, query, rawSnap, snapState, idx, found, iterErr>>
gmhVars == <<module_name, hinstance, gmhRes>>
vars == <<op, pc, injVars, locVars, gmhVars>>

Ops == {"inject", "find_process_id", "get_module_handle"}
Methods == {"LoadLibraryInvocation", "ManualMap"}
Failures == {"TargetUnreachable", "AllocationFailed", "WriteFailed",
             "SymbolResolutionFailed", "RemoteExecutionFailed", "Timeout"}
Outcomes == {"Success"} \cup Failures

\* Sequences over S of length at most n.
SeqUpTo(S, n) == UNION {[1..k -> S] : k \in 0..n}

\* The identifier of the i-th snapshot entry (th32ProcessID).
PidOf(i) == 4 * i

Init ==
    /\ op \in Ops
    /\ pc = "start"
    /\ IF op = "inject" THEN method \in Methods
                        ELSE method = "LoadLibraryInvocation"
    /\ calls = <<>>
    /\ failedAt = "none"
    /\ rawOpen = 0
    /\ handle = 0
    /\ rawAlloc = 0
    /\ allocState = "none"
    /\ written = 0
    /\ writeRes = Pending
    /\ thread = "none"
    /\ waitRaw = WAIT_OBJECT_0
    /\ waitRes = Pending
    /\ result = "none"
    /\ moduleBase = 0
    /\ cleanupFailed = FALSE
    /\ IF op = "find_process_id"
         THEN entries \in SeqUpTo(EntryNames, MaxEntries) /\ query \in QueryNames
         ELSE entries = <<>> /\ query = "z.exe"
    /\ rawSnap = 0
    /\ snapState = "none"
    /\ idx = 0
    /\ found = 0
    /\ iterErr = FALSE
    /\ IF op = "get_module_handle" THEN module_name \in ModuleNames
                                   ELSE module_name = "kernel32.dll"
    /\ hinstance = 0
    /\ gmhRes = Pending

\* ------------------------------------------------------------------ inject
\* The module image of ManualMap persists once a thread runs in it.
Persistent(m, t) == m = "ManualMap" /\ t # "none"

\* Cleanup that joins the remote thread again for as long as one exists.
CleanupWaitsAgain(m, a, t) ==
    IF t # "none" THEN "wait" ELSE IF a = "live" THEN "free" ELSE "close"
\* Where a failed or finished Method goes: free what is transient, then close.
Cleanup(m, a, t) == IF a = "live" /\ ~Persistent(m, t) THEN "free" ELSE "close"

\* 4.1 step 1: open the target; failure is terminal.
OpenTarget ==
    /\ op = "inject" /\ pc = "start"
    /\ \E h \in ProcessHandles :
         LET r == open_process(h) IN
         /\ rawOpen' = h
         /\ calls' = Append(calls, "open_process")
         /\ IF r = 0
              THEN /\ result' = "TargetUnreachable"
                   /\ pc' = "done"
                   /\ handle' = handle
              ELSE /\ handle' = r
                   /\ pc' = "alloc"
                   /\ result' = result
         /\ failedAt' = IF h = 0 THEN "open_process" ELSE failedAt
    /\ UNCHANGED <<op, method, rawAlloc, allocState, written, writeRes, thread,
                   waitRaw, waitRes, moduleBase, cleanupFailed, locVars, gmhVars>>

\* 4.3 (a): allocate the staging region in the target.
StageAlloc ==
    /\ op = "inject" /\ pc = "alloc"
    /\ \E p \in RemoteAddresses :
         LET r == virtual_alloc_ex(p) IN
         /\ rawAlloc' = p
         /\ calls' = Append(calls, "virtual_alloc")
         /\ IF r.ok
              THEN /\ allocState' = "live"
                   /\ pc' = "write"
                   /\ result' = result
              ELSE /\ allocState' = allocState
                   /\ result' = "AllocationFailed"
                   /\ pc' = "close"
         /\ failedAt' = IF p = 0 THEN "virtual_alloc" ELSE failedAt
    /\ UNCHANGED <<op, method, rawOpen, handle, written, writeRes, thread,
                   waitRaw, waitRes, moduleBase, cleanupFailed, locVars, gmhVars>>

\* 4.3 (a): write the path bytes (or the image) into the staging region.
StageWrite ==
    /\ op = "inject" /\ pc = "write"
    /\ \E n \in 0..PayloadSize :
         LET r == write_process_memory(WriteProcessMemory(n, PayloadSize)) IN
         /\ written' = n
         /\ writeRes' = r
         /\ calls' = Append(calls, "write_memory")
         /\ IF r.ok
              THEN /\ pc' = "resolve"
                   /\ result' = result
              ELSE /\ result' = "WriteFailed"
                   /\ pc' = Cleanup(method, allocState, thread)
         /\ failedAt' = IF n < PayloadSize THEN "write_memory" ELSE failedAt
    /\ UNCHANGED <<op, method, rawOpen, handle, rawAlloc, allocState, thread,
                   waitRaw, waitRes, moduleBase, cleanupFailed, locVars, gmhVars>>

\* 4.3 (b), loader-invocation: resolve the loader's export by name.
ResolveExport ==
    /\ op = "inject" /\ pc = "resolve" /\ method = "LoadLibraryInvocation"
    /\ \E a \in ExportAddresses :
         LET r == get_proc_address(a) IN
         /\ calls' = Append(calls, "resolve_export")
         /\ IF r.ok
              THEN /\ pc' = "exec"
                   /\ result' = result
              ELSE /\ result' = "SymbolResolutionFailed"
                   /\ pc' = Cleanup(method, allocState, thread)
         /\ failedAt' = IF a = 0 THEN "resolve" ELSE failedAt
    /\ UNCHANGED <<op, method, rawOpen, handle, rawAlloc, allocState, written,
                   writeRes, thread, waitRaw, waitRes, moduleBase, cleanupFailed,
                   locVars, gmhVars>>

\* 4.3 (b), manual mapping: the entry point is the image's entry offset from
\* its base; the region is made executable first.
ResolveEntry ==
    /\ op = "inject" /\ pc = "resolve" /\ method = "ManualMap"
    /\ \E b \in BOOLEAN :
         LET r == virtual_protect_ex(b) IN
         /\ calls' = Append(calls, "virtual_protect")
         /\ IF r.ok
              THEN /\ pc' = "exec"
                   /\ result' = result
              ELSE /\ result' = "SymbolResolutionFailed"
                   /\ pc' = Cleanup(method, allocState, thread)
         /\ failedAt' = IF ~b THEN "resolve" ELSE failedAt
    /\ UNCHANGED <<op, method, rawOpen, handle, rawAlloc, allocState, written,
                   writeRes, thread, waitRaw, waitRes, moduleBase, cleanupFailed,
                   locVars, gmhVars>>

\* 4.3 (c): create the remote thread at the entry point.
Execute ==
    /\ op = "inject" /\ pc = "exec"
    /\ \E t \in ThreadHandles :
         LET r == create_remote_thread(t) IN
         /\ calls' = Append(calls, "create_remote_thread")
         /\ IF r.ok
              THEN /\ thread' = "running"
                   /\ pc' = "wait"
                   /\ result' = result
              ELSE /\ thread' = thread
                   /\ result' = "RemoteExecutionFailed"
                   /\ pc' = Cleanup(method, allocState, thread)
         /\ failedAt' = IF t = 0 THEN "create_remote_thread" ELSE failedAt
    /\ UNCHANGED <<op, method, rawOpen, handle, rawAlloc, allocState, written,
                   writeRes, waitRaw, waitRes, moduleBase, cleanupFailed,
                   locVars, gmhVars>>

\* 4.3 (d): wait once on the remote thread, with the configured timeout.
Synchronize ==
    /\ op = "inject" /\ pc = "wait"
    /\ \E w \in WaitResults, base \in ModuleBases :
         LET r == wait_for_single_object(w) IN
         /\ waitRaw' = w
         /\ waitRes' = r
         /\ calls' = Append(calls, "wait")
         /\ thread' = IF w = WAIT_OBJECT_0 THEN "finished" ELSE "running"
         /\ IF r.ok /\ r.val = WAIT_OBJECT_0
              THEN /\ result' = "Success"
                   /\ moduleBase' = IF method = "ManualMap" THEN rawAlloc ELSE base
              ELSE /\ result' = "Timeout"
                   /\ moduleBase' = moduleBase
         /\ pc' = Cleanup(method, allocState, "running")
         /\ failedAt' = IF w = WAIT_FAILED THEN "wait" ELSE failedAt
    /\ UNCHANGED <<op, method, rawOpen, handle, rawAlloc, allocState, written,
                   writeRes, cleanupFailed, locVars, gmhVars>>

\* Free the transient staging region; a failed free is only a warning.
FreeStaged ==
    /\ op = "inject" /\ pc = "free"
    /\ allocState = "live"
    /\ \E b \in BOOLEAN :
         LET r == virtual_free_ex(b) IN
         /\ calls' = Append(calls, "virtual_free")
         /\ allocState' = "released"
         /\ cleanupFailed' = (cleanupFailed \/ ~r.ok)
    /\ pc' = "close"
    /\ UNCHANGED <<op, method, failedAt, rawOpen, handle, rawAlloc, written,
                   writeRes, thread, waitRaw, waitRes, result, moduleBase,
                   locVars, gmhVars>>

\* 4.1 step 3: close the process handle and return.
CloseTarget ==
    /\ op = "inject" /\ pc = "close"
    /\ \E b \in BOOLEAN :
         LET r == close_handle(b) IN
         /\ calls' = Append(calls, "close_handle")
         /\ cleanupFailed' = (cleanupFailed \/ ~r.ok)
    /\ handle' = 0
    /\ pc' = "done"
    /\ UNCHANGED <<op, method, failedAt, rawOpen, rawAlloc, allocState, written,
                   writeRes, thread, waitRaw, waitRes, result, moduleBase,
                   locVars, gmhVars>>

Inject ==
    \/ OpenTarget \/ StageAlloc \/ StageWrite \/ ResolveExport \/ ResolveEntry
    \/ Execute \/ Synchronize \/ FreeStaged \/ CloseTarget

\* --------------------------------------------------------- find_process_id
\* Take the system-wide process snapshot.
TakeSnapshot ==
    /\ op = "find_process_id" /\ pc = "start"
    /\ \E h \in SnapshotHandles :
         LET r == create_tool_help32_snapshot(h) IN
         /\ rawSnap' = h
         /\ IF r.ok
              THEN snapState' = "open" /\ pc' = "first"
              ELSE snapState' = snapState /\ pc' = "done"
    /\ UNCHANGED <<op, injVars, entries, query, idx, found, iterErr, gmhVars>>

\* After Process32First/Next filled entry i: match its name exactly.
Visit(i) ==
    IF entries[i] = query
      THEN found' = PidOf(i) /\ pc' = "release"
      ELSE found' = found /\ pc' = "next"

\* Ask for the first entry.  The raw call fails on an empty snapshot, and
\* may fail for any other reason.
FirstEntry ==
    /\ op = "find_process_id" /\ pc = "first"
    /\ \E e \in BOOLEAN :
         LET r == process32_first(Len(entries) >= 1 /\ ~e) IN
         /\ iterErr' = (Len(entries) >= 1 /\ e)
         /\ IF r.ok
              THEN idx' = 1 /\ Visit(1)
              ELSE idx' = idx /\ found' = found /\ pc' = "release"
    /\ UNCHANGED <<op, injVars, entries, query, rawSnap, snapState, gmhVars>>

\* Ask for the next entry.  The raw call fails when no entry is left, and
\* may fail for any other reason.
NextEntry ==
    /\ op = "find_process_id" /\ pc = "next"
    /\ \E e \in BOOLEAN :
         LET r == process32_next(idx < Len(entries) /\ ~e) IN
         /\ iterErr' = (idx < Len(entries) /\ e)
         /\ IF r.ok
              THEN idx' = idx + 1 /\ Visit(idx + 1)
              ELSE idx' = idx /\ found' = found /\ pc' = "release"
    /\ UNCHANGED <<op, injVars, entries, query, rawSnap, snapState, gmhVars>>

\* Release the snapshot handle and return.
ReleaseSnapshot ==
    /\ op = "find_process_id" /\ pc = "release"
    /\ snapState = "open"
    /\ \E b \in BOOLEAN :
         LET r == close_handle(b) IN
         cleanupFailed' = (cleanupFailed \/ ~r.ok)
    /\ snapState' = "closed"
    /\ pc' = "done"
    /\ UNCHANGED <<op, method, calls, failedAt, rawOpen, handle, rawAlloc,
                   allocState, written, writeRes, thread, waitRaw, waitRes,
                   result, moduleBase, entries, query, rawSnap, idx, found,
                   iterErr, gmhVars>>

FindProcessId == TakeSnapshot \/ FirstEntry \/ NextEntry \/ ReleaseSnapshot

\* ------------------------------------------------------- get_module_handle
\* GetModuleHandleA: the values the call can return for a module name.
GetModuleHandleA(name) == IF name \in LoadedModules THEN HInstances ELSE {0}

GetModuleHandle ==
    /\ op = "get_module_handle" /\ pc = "start"
    /\ \E h \in GetModuleHandleA(module_name) :
         /\ hinstance' = h
         /\ gmhRes' = get_module_handle(h)
    /\ pc' = "done"
    /\ UNCHANGED <<op, module_name, injVars, locVars>>

\* ----------------------------------------------------------- specification
Next == Inject \/ FindProcessId \/ GetModuleHandle

Spec == Init /\ [][Next]_vars

\* Every OS call returns: a step that is enabled is eventually taken.
FairSpec == Spec /\ WF_vars(Next)

\* ------------------------------------------------------------- properties
\* Number of times the OS call `name` was issued.
Count(name) == Cardinality({i \in 1..Len(calls) : calls[i] = name})

\* s is an initial segment of t.
IsPrefix(s, t) == Len(s) <= Len(t) /\ \A i \in 1..Len(s) : s[i] = t[i]

\* The call order of a loader-invocation inject in which everything succeeds.
LoadLibraryOrder ==
    <<"open_process", "virtual_alloc", "write_memory", "resolve_export",
      "create_remote_thread", "wait", "virtual_free", "close_handle">>

\* No OS call has failed so far and no wait has ended unsignaled.
AllSucceeded ==
    failedAt = "none" /\ (Count("wait") >= 1 => waitRaw = WAIT_OBJECT_0)

\* The identifier find_process_id is to return: that of the first entry
\* whose name is the query, 0 (none) when there is no such entry.
FirstMatch ==
    LET M == {i \in 1..Len(entries) : entries[i] = query} IN
    IF M = {} THEN 0 ELSE PidOf(CHOOSE i \in M : \A j \in M : i <= j)

\* C1: when OpenProcess succeeded, the process handle is closed exactly
\* once by the time inject returns, on every exit path; close_handle is
\* never issued twice and no OS call follows it.
C1_HandleClosedOnce ==
    op = "inject" =>
      /\ Count("close_handle") <= 1
      /\ \A i \in 1..Len(calls) : calls[i] = "close_handle" => i = Len(calls)
      /\ (pc = "done" /\ rawOpen # 0 => Count("close_handle") = 1)

C1_Witness ==
    /\ op = "inject" /\ pc = "done" /\ rawOpen # 0
    /\ result = "Timeout" /\ Count("close_handle") = 1

C3_NoThreadAfterFailedResolve ==
    op = "inject" /\ failedAt = "resolve" =>
      /\ Count("create_remote_thread") = 0
      /\ thread = "none"
      /\ result = "SymbolResolutionFailed"
      /\ (pc = "done" => Count("virtual_free") = 1)

C3_Witness ==
    /\ op = "inject" /\ pc = "done" /\ failedAt = "resolve"
    /\ method = "ManualMap" /\ allocState = "released"

\* C4: a wait that ends because the timeout elapsed is reported by the
\* wait step as the Timeout error, inject's result is Timeout, and the
\* wait is issued once.
C4_TimedOutWaitIsTimeoutError ==
    op = "inject" /\ Count("wait") >= 1 /\ waitRaw = WAIT_TIMEOUT =>
      /\ waitRes = Err("Timeout")
      /\ result = "Timeout"
      /\ Count("wait") = 1

\* C5: in a loader-invocation inject, as long as every OS call has
\* succeeded and the thread has signaled, the calls issued are an initial
\* segment of open_process, virtual_alloc, write_memory, resolve_export,
\* create_remote_thread, wait, virtual_free, close_handle and no failure is
\* recorded; when inject returns all eight were issued and the result is
\* success with a non-null module base.
C5_LoadLibraryCallOrder ==
    op = "inject" /\ method = "LoadLibraryInvocation" /\ AllSucceeded =>
      /\ IsPrefix(calls, LoadLibraryOrder)
      /\ result \in {"none", "Success"}
      /\ (pc = "done" =>
            /\ calls = LoadLibraryOrder
            /\ result = "Success"
            /\ moduleBase # 0)

C5_Witness ==
    /\ op = "inject" /\ method = "LoadLibraryInvocation" /\ pc = "done"
    /\ AllSucceeded /\ result = "Success" /\ calls = LoadLibraryOrder

\* C6: when OpenProcess fails, inject returns TargetUnreachable at once:
\* open_process is the only OS call of that inject.
C6_OpenFailureIsTerminal ==
    op = "inject" /\ failedAt = "open_process" =>
      /\ pc = "done"
      /\ result = "TargetUnreachable"
      /\ calls = <<"open_process">>

C6_Witness ==
    /\ op = "inject" /\ failedAt = "open_process" /\ rawOpen = 0
    /\ result = "TargetUnreachable"

\* C7: every inject terminates; when it has returned it has exactly one
\* outcome of the taxonomy, which is never replaced once decided, and no
\* step of it is left to run.
C7_DefiniteOutcome ==
    /\ (op = "inject") ~> (op = "inject" /\ pc = "done")
    /\ [](op = "inject" /\ pc = "done" => result \in Outcomes /\ ~ENABLED Next)
    /\ [][result # "none" => result' = result]_vars

C7_Witness ==
    /\ op = "inject" /\ pc = "done" /\ rawOpen # 0
    /\ result = "RemoteExecutionFailed" /\ cleanupFailed

\* C8: when find_process_id returns, the snapshot it took has been
\* released; and unless the iteration failed midway, its result is the
\* identifier of the first entry whose name equals the query exactly, or
\* none when no entry does.
C8_FirstExactMatch ==
    op = "find_process_id" /\ pc = "done" /\ ~is_invalid(rawSnap) =>
      /\ snapState = "closed"
      /\ (~iterErr => found = FirstMatch)

C8_Witness ==
    /\ op = "find_process_id" /\ pc = "done" /\ snapState = "closed"
    /\ Len(entries) = 3 /\ entries[1] = "B.EXE" /\ entries[3] = "b.exe"
    /\ query = "b.exe" /\ found = PidOf(2) /\ ~iterErr

\* C9: get_module_handle returns Err(Error::Handle) when the handle the OS
\* returned is NULL and Ok(handle) for every other handle.
C9_NullHandleIsError ==
    op = "get_module_handle" /\ pc = "done" =>
      IF hinstance = 0 THEN gmhRes = Err("Handle") ELSE gmhRes = Ok(hinstance)

\* C10: a staging write of fewer bytes than requested is reported as an
\* error by the write step; no entry-point resolution and no remote thread
\* follow, and the result is WriteFailed, not success.
C10_PartialWriteIsFailure ==
    op = "inject" /\ Count("write_memory") >= 1 /\ written < PayloadSize =>
      /\ ~writeRes.ok
      /\ Count("resolve_export") = 0
      /\ Count("virtual_protect") = 0
      /\ Count("create_remote_thread") = 0
      /\ result = "WriteFailed"

C10_Witness ==
    /\ op = "inject" /\ pc = "done" /\ written > 0 /\ written < PayloadSize
    /\ result = "WriteFailed" /\ allocState = "released"

=============================================================================
